---------------------------- MODULE Spec2Model ----------------------------
(***************************************************************************)
(* Model of the AutoGen menu utility: the dispatcher (menu/menu.py), the   *)
(* command-line surface (menu/parser.py) and the validation cache          *)
(* (menu/utils.py).                                                        *)
(*                                                                         *)
(* Module names and file names are sequences of tokens, "." and "_" being  *)
(* tokens of their own, so that str.startswith and str.replace are         *)
(* computed on them as Python computes them on the strings.                *)
(***************************************************************************)
EXTENDS Integers, Sequences, FiniteSets, TLC

(***************************************************************************)
(* Bounds of the model.                                                    *)
(***************************************************************************)
\* Number of distinct source contents a component file can hold (0..NumSources-1).
NumSources == 3

\* Number of cache function calls followed in one behaviour.
MaxCacheCalls == 2

(***************************************************************************)
(* Python's exception classes, with the base class of each.                *)
(***************************************************************************)
ExcParent ==
    [ BaseException       |-> "object",
      Exception           |-> "BaseException",
      KeyboardInterrupt   |-> "BaseException",
      SystemExit          |-> "BaseException",
      ImportError         |-> "Exception",
      ModuleNotFoundError |-> "ImportError",
      AttributeError      |-> "Exception",
      ValueError          |-> "Exception",
      TypeError           |-> "Exception",
      OSError             |-> "Exception",
      FileNotFoundError   |-> "OSError",
      PermissionError     |-> "OSError",
      KeyError            |-> "Exception",
      SyntaxError         |-> "Exception",
      EOFError            |-> "Exception",
      PickleError         |-> "Exception",
      PicklingError       |-> "PickleError",
      UnpicklingError     |-> "PickleError" ]

ExcClasses == DOMAIN ExcParent

\* issubclass(e, base), following the base classes up to object.
RECURSIVE IsSubclass(_, _)
IsSubclass(e, base) ==
    IF e = base THEN TRUE
    ELSE IF e \notin ExcClasses THEN FALSE
    ELSE IsSubclass(ExcParent[e], base)

\* The first except clause of `clauses' that catches e, 0 when none does.
FirstMatch(clauses, e) ==
    LET hits == { i \in 1..Len(clauses) : IsSubclass(e, clauses[i].exc) }
    IN  IF hits = {} THEN 0
        ELSE CHOOSE i \in hits : \A j \in hits : i <= j

(***************************************************************************)
(* Outcomes of a call: a returned value or a raised exception.             *)
(***************************************************************************)
Ret(v) == [kind |-> "return", value |-> v]

Raise(e) == [kind |-> "raise", exc |-> e, value |-> 1]

\* sys.exit(code) and argparse's exits: SystemExit carrying a status.
Exit(code) == [kind |-> "raise", exc |-> "SystemExit", value |-> code]

None == [kind |-> "none"]

(***************************************************************************)
(* Strings as token sequences.                                             *)
(***************************************************************************)
\* str.startswith
startswith(s, prefix) ==
    /\ Len(s) >= Len(prefix)
    /\ SubSeq(s, 1, Len(prefix)) = prefix

\* str.replace(old, new) for one-token old and new
replace(s, old, new) ==
    [ i \in 1..Len(s) |-> IF s[i] = old THEN new ELSE s[i] ]

(***************************************************************************)
(* Components.  studio and run_all are components of the repository, both  *)
(* decorated with debug_args (as every component of the repository is);    *)
(* plain stands for a component whose entry function is a bare function of *)
(* its own module, which the dispatcher's __module__ test is written for.  *)
(***************************************************************************)
Components == {"studio", "run_all", "plain"}

\* The name each component's register_parser gives to add_parser.
CommandOf(c) == CASE c = "studio"  -> "studio"
                  [] c = "run_all" -> "all"
                  [] OTHER         -> c

\* Whether the entry function is defined under @debug_args.
Decorated(c) == c \in {"studio", "run_all"}

\* The name under which the component imported the utils module:
\* "from ..utils import" gives menu.utils, "from utils import" gives utils.
UtilsName(c) == IF c = "run_all" THEN <<"utils">> ELSE <<"menu", ".", "utils">>

\* The last part of a module's name, as tokens: docker_studio is the
\* component of the repository, docker.studio a module studio of a package
\* docker beside it.
ModuleTokens(c) == CASE c = "docker_studio" -> <<"docker", "_", "studio">>
                     [] c = "docker.studio" -> <<"docker", ".", "studio">>
                     [] OTHER               -> <<c>>

\* The component's module name, menu.components.<c>.
ModuleName(c) == <<"menu", ".", "components", ".">> \o ModuleTokens(c)

\* The modules whose validation is cached.
CacheModules == {"docker_studio", "docker.studio"}

\* The module files on disk.
Files == Components \cup CacheModules

ComponentsPrefix == <<"menu", ".", "components", ".">>

\* Source contents: what importing a file with content b raises, "ok" if nothing.
LoadErr(b) == CASE b % 4 = 2 -> "SyntaxError"
                [] b % 4 = 3 -> "ModuleNotFoundError"
                [] OTHER     -> "ok"

Sources == 0..(NumSources - 1)

NoFunc == [name |-> "none"]

\* def <entry>(args): a function object of module c, compiled from content b.
DefFunction(c, b) ==
    [name |-> "entry", comp |-> c, code |-> b, module |-> ModuleName(c)]

\* debug_args(func): the wrapper closes over func; it is a function of the
\* utils module, and functools.wraps is not applied.
debug_args(func, utils) ==
    [name |-> "wrapper", comp |-> func.comp, code |-> func.code, module |-> utils]

\* The object register_parser binds with set_defaults(func=...) when the
\* component's module was executed from content b.
EntryFunction(c, b) ==
    IF Decorated(c) THEN debug_args(DefFunction(c, b), UtilsName(c))
    ELSE DefFunction(c, b)

(***************************************************************************)
(* The command line.                                                       *)
(***************************************************************************)
DefaultPort == 8081

\* Values given with --port.
GivenPorts == {9999}

\* Command lines: the command word ("" when there is none, bogus for a word
\* no component registers) and what follows it.
Argvs ==
    [ command : {"", "studio", "all", "plain", "bogus"},
      flag    : {"none", "port", "unknown", "help"},
      port    : GivenPorts ]

\* register_all_parsers: every loaded component registers its command.
register_all_parsers(mods) ==
    { [command |-> CommandOf(c), func |-> EntryFunction(c, mods[c])] : c \in DOMAIN mods }

SurfaceCommands(surf) == { e.command : e \in surf }

SurfaceFunc(surf, cmd) == (CHOOSE e \in surf : e.command = cmd).func

\* ArgumentParser.parse_args: a Namespace, or SystemExit (0 after -h, 2 after
\* ArgumentParser.error).
parse_args(av, surf) ==
    IF av.flag = "help" THEN Exit(0)
    ELSE IF av.command = "" THEN
        IF av.flag = "none"
        THEN Ret([component |-> "", port |-> DefaultPort, func |-> NoFunc])
        ELSE Exit(2)
    ELSE IF av.command \notin SurfaceCommands(surf) THEN Exit(2)
    ELSE IF av.flag = "unknown" THEN Exit(2)
    ELSE Ret([component |-> av.command,
              port      |-> IF av.flag = "port" THEN av.port ELSE DefaultPort,
              func      |-> SurfaceFunc(surf, av.command)])

NoArgs == [component |-> "", port |-> 0, func |-> NoFunc]

\* hasattr(args, 'func')
HasFunc(a) == a.func # NoFunc

(***************************************************************************)
(* main's except clauses, in order, with the code each returns.            *)
(***************************************************************************)
\* The clauses without the last one, except Exception.
ExceptClausesNoCatchAll ==
    << [exc |-> "KeyboardInterrupt", msg |-> "Operation interrupted by user.", code |-> 130],
       [exc |-> "ImportError",       msg |-> "Error importing module",         code |-> 1],
       [exc |-> "AttributeError",    msg |-> "Attribute error",                code |-> 1],
       [exc |-> "ValueError",        msg |-> "Value error",                    code |-> 1],
       [exc |-> "TypeError",         msg |-> "Type error",                     code |-> 1],
       [exc |-> "FileNotFoundError", msg |-> "File not found",                 code |-> 1],
       [exc |-> "PermissionError",   msg |-> "Permission error",               code |-> 1],
       [exc |-> "OSError",           msg |-> "OS error",                       code |-> 1] >>

\* The clauses without the KeyboardInterrupt clause and with a bare except last.
ExceptClausesNoInterrupt ==
    << [exc |-> "ImportError",       msg |-> "Error importing module",         code |-> 1],
       [exc |-> "AttributeError",    msg |-> "Attribute error",                code |-> 1],
       [exc |-> "ValueError",        msg |-> "Value error",                    code |-> 1],
       [exc |-> "TypeError",         msg |-> "Type error",                     code |-> 1],
       [exc |-> "FileNotFoundError", msg |-> "File not found",                 code |-> 1],
       [exc |-> "PermissionError",   msg |-> "Permission error",               code |-> 1],
       [exc |-> "OSError",           msg |-> "OS error",                       code |-> 1],
       [exc |-> "BaseException",     msg |-> "Unexpected error",               code |-> 1] >>

ExceptClauses ==
    << [exc |-> "KeyboardInterrupt", msg |-> "Operation interrupted by user.", code |-> 130],
       [exc |-> "ImportError",       msg |-> "Error importing module",         code |-> 1],
       [exc |-> "AttributeError",    msg |-> "Attribute error",                code |-> 1],
       [exc |-> "ValueError",        msg |-> "Value error",                    code |-> 1],
       [exc |-> "TypeError",         msg |-> "Type error",                     code |-> 1],
       [exc |-> "FileNotFoundError", msg |-> "File not found",                 code |-> 1],
       [exc |-> "PermissionError",   msg |-> "Permission error",               code |-> 1],
       [exc |-> "OSError",           msg |-> "OS error",                       code |-> 1],
       [exc |-> "Exception",         msg |-> "Unexpected error",               code |-> 1] >>

\* TryMain mapping a returned code to 0 or 1.
TryMainClamped(o) ==
    IF o.kind = "return" THEN Ret(IF o.value = 0 THEN 0 ELSE 1)
    ELSE LET i == FirstMatch(ExceptClauses, o.exc)
         IN  IF i = 0 THEN o ELSE Ret(ExceptClauses[i].code)

\* What main's try statement makes of the outcome of its body: a return
\* value passes, a raised exception goes to the first clause that catches it.
TryMain(o) ==
    IF o.kind = "return" THEN o
    ELSE LET i == FirstMatch(ExceptClauses, o.exc)
         IN  IF i = 0 THEN o ELSE Ret(ExceptClauses[i].code)

\* The message the clause that catches o prints, if any.
TryMainMsg(o) ==
    IF o.kind = "return" THEN {}
    ELSE LET i == FirstMatch(ExceptClauses, o.exc)
         IN  IF i = 0 THEN {} ELSE {ExceptClauses[i].msg}

\* sys.exit(main()): the status the process ends with.
ExitStatus(r) ==
    IF r.kind = "return" THEN r.value % 256
    ELSE IF r.exc = "SystemExit" THEN r.value % 256
    ELSE IF r.exc = "KeyboardInterrupt" THEN 130
    ELSE 1

(***************************************************************************)
(* State.                                                                  *)
(***************************************************************************)
VARIABLES
    argv,          \* sys.argv: the command line of this run
    pc,            \* where main is: start, loaded, built, parsed, reloaded, done
    source,        \* source[c]: the content of module c's file on disk
    sysModules,    \* sys.modules: loaded component |-> the content it was executed from
    surface,       \* the subcommands registered on the parser
    args,          \* the Namespace parse_args returned
    reloaded,      \* the module names main has passed to importlib.reload
    reloadOutcome, \* outcome of the importlib.reload call, None if not made
    executed,      \* the entry function calls made: what ran, with what
    entryOutcome,  \* outcome of the entry function's body, None if not called
    result,        \* outcome of main, None while it runs
    printed,       \* what was printed
    interrupted,   \* where a KeyboardInterrupt arrived, "no" if none did
    cacheDir,      \* the files of CACHE_DIR: file name |-> content
    cacheCall,     \* the last call of a cache function and its outcome
    cacheCalls,    \* the number of cache function calls made
    valModule,     \* the module validate_component_module is asked about
    valResult,     \* outcome of validate_component_module, None if not called
    regMods,       \* the component modules the registry discovers, in order
    regArgparse,   \* what this build's add_parser does with a name already taken
    regBuilt,      \* outcome of create_parser, None if not called
    raArgs,        \* the Namespace run_all is called with
    raPackage,     \* the names in the components package when run_all runs
    raComponents,  \* run_all: the components selected to run, in order
    raIndex,       \* run_all: the number of components the loop has taken
    raPc,          \* run_all: collecting, in the loop, after a break, or done
    raResults,     \* run_all: the results list
    raCalls,       \* run_all: the entries whose callable was called, in order
    raOut,         \* outcome of run_all, None while it runs
    stComponent,   \* the multi-step component whose entry function runs
    stArgs,        \* the Namespace the entry function is called with
    stIndex,       \* the number of steps of the entry function that are over
    stStarted,     \* the external commands started, in order
    stCodes,       \* the exit codes of the commands that have exited, in order
    stOut          \* outcome of the entry function, None while it runs

mainVars == <<argv, pc, sysModules, surface, args, reloaded, reloadOutcome, executed,
              entryOutcome, result, printed, interrupted>>

cacheVars == <<cacheDir, cacheCall, cacheCalls>>

validateVars == <<valModule, valResult>>

registryVars == <<regMods, regArgparse, regBuilt>>

runAllVars == <<raArgs, raPackage, raComponents, raIndex, raPc, raResults, raCalls, raOut>>

stepVars == <<stComponent, stArgs, stIndex, stStarted, stCodes, stOut>>

auxVars == <<validateVars, registryVars, runAllVars, stepVars>>

vars == <<mainVars, source, cacheVars, auxVars>>

NoCall == [fn |-> "none"]

\* validate_component_module is not being called.
ValidateIdle ==
    /\ valModule = None
    /\ valResult = None

\* The registry is not being built apart from the dispatcher's run.
RegistryIdle ==
    /\ regMods = <<>>
    /\ regArgparse = "raise"
    /\ regBuilt = None

\* run_all is not being called.
RunAllIdle ==
    /\ raArgs = None
    /\ raPackage = {}
    /\ raComponents = <<>>
    /\ raIndex = 0
    /\ raPc = "done"
    /\ raResults = <<>>
    /\ raCalls = <<>>
    /\ raOut = None

\* No multi-step entry function is being called.
StepsIdle ==
    /\ stComponent = ""
    /\ stArgs = None
    /\ stIndex = 0
    /\ stStarted = <<>>
    /\ stCodes = <<>>
    /\ stOut = None

\* main is not running and the cache directory is empty.
DispatcherIdle ==
    /\ argv = [command |-> "", flag |-> "none", port |-> 9999]
    /\ pc = "start"
    /\ source = [c \in Files |-> 0]
    /\ sysModules = <<>>
    /\ surface = {}
    /\ args = NoArgs
    /\ reloaded = {}
    /\ reloadOutcome = None
    /\ executed = {}
    /\ entryOutcome = None
    /\ result = None
    /\ printed = {}
    /\ interrupted = "no"
    /\ cacheDir = <<>>
    /\ cacheCall = NoCall
    /\ cacheCalls = 0

Init ==
    /\ argv \in Argvs
    /\ pc = "start"
    /\ source \in [Files -> Sources]
    /\ \A c \in Files \ Components : source[c] = 0
    /\ sysModules = <<>>
    /\ surface = {}
    /\ args = NoArgs
    /\ reloaded = {}
    /\ reloadOutcome = None
    /\ executed = {}
    /\ entryOutcome = None
    /\ result = None
    /\ printed = {}
    /\ interrupted = "no"
    /\ cacheDir = <<>>
    /\ cacheCall = NoCall
    /\ cacheCalls = 0
    /\ ValidateIdle
    /\ RegistryIdle
    /\ RunAllIdle
    /\ StepsIdle

(***************************************************************************)
(* The environment: a developer edits a component's file.  Edits are       *)
(* followed up to the reload step; later ones no run could pick up.        *)
(***************************************************************************)
EditPhases == {"start", "loaded", "built", "parsed"}

EditSource(c, b) ==
    /\ pc \in EditPhases
    /\ b # source[c]
    /\ source' = [source EXCEPT ![c] = b]
    /\ UNCHANGED <<mainVars, cacheVars, auxVars>>

(***************************************************************************)
(* main, step by step.                                                     *)
(***************************************************************************)
\* load_all_components(): imports every component module that loads.
load_all_components ==
    /\ pc = "start"
    /\ pc' = "loaded"
    /\ sysModules' = [ c \in { d \in Components : LoadErr(source[d]) = "ok" } |-> source[c] ]
    /\ UNCHANGED <<argv, source, surface, args, reloaded, reloadOutcome, executed,
                   entryOutcome, result, printed, interrupted, cacheVars, auxVars>>

\* create_parser(): the subparsers of the loaded components.
create_parser ==
    /\ pc = "loaded"
    /\ pc' = "built"
    /\ surface' = register_all_parsers(sysModules)
    /\ printed' = IF register_all_parsers(sysModules) = {}
                  THEN printed \cup {"[WARNING] No valid components were registered."}
                  ELSE printed
    /\ UNCHANGED <<argv, source, sysModules, args, reloaded, reloadOutcome, executed,
                   entryOutcome, result, interrupted, cacheVars, auxVars>>

\* parser.parse_args(): outside main's try, so its SystemExit leaves main.
ParseArgs ==
    /\ pc = "built"
    /\ LET o == parse_args(argv, surface)
       IN  IF o.kind = "return"
           THEN /\ args' = o.value
                /\ pc' = "parsed"
                /\ UNCHANGED <<result, printed>>
           ELSE /\ args' = NoArgs
                /\ pc' = "done"
                /\ result' = o
                /\ printed' = printed \cup (IF o.value = 0 THEN {"usage", "options"} ELSE {"usage", "error"})
    /\ UNCHANGED <<argv, source, sysModules, surface, reloaded, reloadOutcome, executed,
                   entryOutcome, interrupted, cacheVars, auxVars>>

\* NoCommand returning 0 after the help text.
NoCommandReturnsZero ==
    /\ pc = "parsed"
    /\ ~HasFunc(args)
    /\ pc' = "done"
    /\ printed' = printed \cup {"usage", "options"}
    /\ result' = Ret(0)
    /\ UNCHANGED <<argv, source, sysModules, surface, args, reloaded, reloadOutcome, executed,
                   entryOutcome, interrupted, cacheVars, auxVars>>

\* if not hasattr(args, 'func'): parser.print_help(); return 1
NoCommand ==
    /\ pc = "parsed"
    /\ ~HasFunc(args)
    /\ pc' = "done"
    /\ printed' = printed \cup {"usage", "options"}
    /\ result' = Ret(1)
    /\ UNCHANGED <<argv, source, sysModules, surface, args, reloaded, reloadOutcome, executed,
                   entryOutcome, interrupted, cacheVars, auxVars>>

\* The component whose module is called name.
ComponentOf(name) == CHOOSE c \in Components : ModuleName(c) = name

\* importlib.reload(module): executes the file again; raises what the
\* execution raises.
reload(b) == IF LoadErr(b) = "ok" THEN Ret("module") ELSE Raise(LoadErr(b))

\* Whether main calls importlib.reload for the function f (lines 39-41).
ReloadsModuleOf(f) == startswith(f.module, ComponentsPrefix)

\* Lines 38-44 of main: the reload of the module of args.func, inside the
\* try.  A KeyboardInterrupt may arrive anywhere in it.
ReloadStep(intr) ==
    /\ pc = "parsed"
    /\ HasFunc(args)
    /\ LET f    == args.func
           call == ReloadsModuleOf(f) /\ ~intr
           o    == IF intr THEN Raise("KeyboardInterrupt")
                   ELSE IF call THEN reload(source[ComponentOf(f.module)])
                   ELSE Ret("skipped")
       IN  /\ reloadOutcome' = IF call THEN o ELSE None
           /\ reloaded' = IF call THEN reloaded \cup {f.module} ELSE reloaded
           /\ printed' = printed
                           \cup (IF ReloadsModuleOf(f) THEN {"[INFO] Reloading module"} ELSE {})
                           \cup TryMainMsg(o)
           /\ interrupted' = IF intr THEN "dispatch" ELSE interrupted
           /\ IF o.kind = "return"
              THEN /\ pc' = "reloaded"
                   /\ sysModules' = IF call
                                    THEN [sysModules EXCEPT ![ComponentOf(f.module)] =
                                              source[ComponentOf(f.module)]]
                                    ELSE sysModules
                   /\ UNCHANGED result
              ELSE /\ pc' = "done"
                   /\ result' = TryMain(o)
                   /\ UNCHANGED sysModules
    /\ UNCHANGED <<argv, source, surface, args, executed, entryOutcome, cacheVars, auxVars>>

\* What the body of an entry function does: returns an exit code, raises,
\* or is interrupted.
ReturnCodes == {0, 1, 2, 3, 130, 255, -9}

EntryOutcomes ==
    { Ret(r) : r \in ReturnCodes }
      \cup { Raise(e) : e \in ExcClasses \ {"SystemExit"} }
      \cup { Exit(3) }

\* wrapper(args) of debug_args: prints the arguments and returns func(args).
wrapper(o) == o

\* Calling the function object f: the body that runs is the one f was
\* compiled with.
Call(f, a, o) ==
    [ran |-> [comp |-> f.comp, code |-> f.code, port |-> a.port],
     out |-> IF f.name = "wrapper" THEN wrapper(o) ELSE o]

\* Line 46 of main, return args.func(args), and the except clauses.
InvokeEntry(o) ==
    /\ pc = "reloaded"
    /\ pc' = "done"
    /\ LET c == Call(args.func, args, o)
       IN  /\ executed' = executed \cup {c.ran}
           /\ entryOutcome' = o
           /\ result' = TryMain(c.out)
           /\ printed' = printed \cup TryMainMsg(c.out)
    /\ interrupted' = IF o = Raise("KeyboardInterrupt") THEN "entry" ELSE interrupted
    /\ UNCHANGED <<argv, source, sysModules, surface, args, reloaded, reloadOutcome, cacheVars, auxVars>>

\* A KeyboardInterrupt before main's try statement: nothing catches it.
InterruptStartup ==
    /\ pc \in {"start", "loaded", "built"}
    /\ pc' = "done"
    /\ interrupted' = "startup"
    /\ result' = Raise("KeyboardInterrupt")
    /\ UNCHANGED <<argv, source, sysModules, surface, args, reloaded, reloadOutcome, executed,
                   entryOutcome, printed, cacheVars, auxVars>>

Next ==
    \/ \E c \in Components, b \in Sources : EditSource(c, b)
    \/ load_all_components
    \/ create_parser
    \/ ParseArgs
    \/ NoCommand
    \/ \E intr \in BOOLEAN : ReloadStep(intr)
    \/ \E o \in EntryOutcomes : InvokeEntry(o)
    \/ InterruptStartup

Spec == Init /\ [][Next]_vars

(***************************************************************************)
(* The validation cache of menu/utils.py.                                  *)
(***************************************************************************)
\* hashlib.md5(content).hexdigest(): one digest per content.
md5(b) == <<"md5", b>>

\* get_module_hash(module_path): the digest of the file's bytes.
get_module_hash(b) == md5(b)

\* A file name made of the module name alone.
cache_file_name_only(module_name, module_hash) ==
    replace(module_name, ".", "_") \o <<".pkl">>

\* os.path.join(CACHE_DIR, f"{module_name.replace('.', '_')}_{module_hash}.pkl")
cache_file(module_name, module_hash) ==
    replace(module_name, ".", "_") \o <<"_", module_hash, ".pkl">>

\* os.path.exists(cache_file)
exists(dir, file) == file \in DOMAIN dir

\* dir with `file' holding `content'.
WriteFile(dir, file, content) ==
    [ f \in DOMAIN dir \cup {file} |-> IF f = file THEN content ELSE dir[f] ]

\* Contents of a cache file.
Empty == [state |-> "empty"]

Truncated == [state |-> "truncated"]

Complete(component) == [state |-> "complete", value |-> component]

\* What is handed to cache_component: the module object that
\* validate_component_module returns, a descriptor of plain data, or an
\* object holding a module-level lambda or a local function.
ComponentKinds == {"module", "data", "lambda", "local"}

\* What happens around the call: nothing, open() refused, the disk filling
\* up during the write, a KeyboardInterrupt during the write.
StoreEnvs == {"ok", "open_denied", "disk_full", "interrupt"}

\* pickle.dump(component, f)
pickle_dump(kind, env) ==
    CASE kind = "module" -> Raise("TypeError")
      [] kind = "lambda" -> Raise("PicklingError")
      [] kind = "local"  -> Raise("AttributeError")
      [] OTHER -> CASE env = "disk_full" -> Raise("OSError")
                    [] env = "interrupt" -> Raise("KeyboardInterrupt")
                    [] OTHER             -> Ret("written")

\* pickle.load(f) on a file holding `content'.
pickle_load(content) ==
    CASE content.state = "complete" -> Ret(content.value)
      [] content.state = "empty"    -> Raise("EOFError")
      [] OTHER                      -> Raise("UnpicklingError")

\* except (pickle.PickleError, IOError), of both cache functions.
CacheExcept == << [exc |-> "PickleError"], [exc |-> "OSError"] >>

Caught(o) == o.kind = "raise" /\ FirstMatch(CacheExcept, o.exc) # 0

\* cache_component(module_name, component, module_path) with the file at
\* module_path holding b: the outcome, the directory left, what was printed.
\* partial: whether a failed write had flushed part of the data.
cache_component(dir, module_name, component, b, env, partial) ==
    LET file    == cache_file(module_name, get_module_hash(b))
        opened  == IF env = "open_denied" THEN Raise("PermissionError") ELSE Ret("f")
        dumped  == pickle_dump(component.kind, env)
        body    == IF opened.kind = "raise" THEN opened
                   ELSE IF dumped.kind = "raise" THEN dumped
                   ELSE Ret(TRUE)
        left    == IF opened.kind = "raise" THEN dir
                   ELSE IF dumped.kind = "raise"
                        THEN WriteFile(dir, file, IF partial THEN Truncated ELSE Empty)
                        ELSE WriteFile(dir, file, Complete(component))
    IN  [ out  |-> IF Caught(body) THEN Ret(FALSE) ELSE body,
          dir  |-> left,
          dump |-> IF opened.kind = "raise" THEN None ELSE dumped,
          msg  |-> IF Caught(body) THEN "[WARNING] Failed to cache component"
                   ELSE IF body.kind = "return" THEN "[INFO] Component cached successfully"
                   ELSE "" ]

NotFound == [kind |-> "None"]

LoadError == [kind |-> "error", msg |-> "Error loading cache"]

\* get_cached_component(module_name, module_path) with the file at
\* module_path holding b: the outcome, (found_in_cache, component_or_error)
\* when it returns.
get_cached_component(dir, module_name, b, env) ==
    LET file   == cache_file(module_name, get_module_hash(b))
        opened == IF env = "open_denied" THEN Raise("PermissionError") ELSE Ret("f")
        loaded == pickle_load(dir[file])
        body   == IF opened.kind = "raise" THEN opened ELSE loaded
    IN  IF ~exists(dir, file) THEN [out |-> Ret(<<FALSE, NotFound>>), load |-> None]
        ELSE [ out  |-> IF body.kind = "return" THEN Ret(<<TRUE, body.value>>)
                        ELSE IF Caught(body) THEN Ret(<<FALSE, LoadError>>)
                        ELSE body,
               load |-> IF opened.kind = "raise" THEN None ELSE loaded ]

\* A call of cache_component for component c's module.
CacheComponent(c, kind, env, partial) ==
    /\ cacheCalls < MaxCacheCalls
    /\ cacheCalls' = cacheCalls + 1
    /\ kind # "data" => env \in {"ok", "open_denied"}
    /\ partial => (env # "open_denied" /\ kind # "module")
    /\ LET component == [kind |-> kind, name |-> ModuleName(c), code |-> source[c]]
           r == cache_component(cacheDir, ModuleName(c), component, source[c], env, partial)
       IN  /\ cacheDir' = r.dir
           /\ cacheCall' = [fn |-> "cache_component", comp |-> c, bytes |-> source[c],
                            kind |-> kind, env |-> env, tried |-> r.dump,
                            out |-> r.out, msg |-> r.msg]
    /\ UNCHANGED <<mainVars, source, auxVars>>

\* A call of get_cached_component for component c's module.
GetCachedComponent(c, env) ==
    /\ cacheCalls < MaxCacheCalls
    /\ cacheCalls' = cacheCalls + 1
    /\ LET r == get_cached_component(cacheDir, ModuleName(c), source[c], env)
       IN  cacheCall' = [fn |-> "get_cached_component", comp |-> c, bytes |-> source[c],
                         kind |-> "", env |-> env, tried |-> r.load,
                         out |-> r.out, msg |-> ""]
    /\ UNCHANGED <<mainVars, source, cacheDir, auxVars>>

\* The developer edits the file of a cached module.
EditModule(c, b) ==
    /\ c \in CacheModules
    /\ EditSource(c, b)

\* The cache functions are followed with main not started; only the files of
\* the cached modules vary.
InitCache ==
    /\ argv = [command |-> "", flag |-> "none", port |-> 9999]
    /\ pc = "start"
    /\ source \in [Files -> Sources]
    /\ \A c \in Files \ CacheModules : source[c] = 0
    /\ sysModules = <<>>
    /\ surface = {}
    /\ args = NoArgs
    /\ reloaded = {}
    /\ reloadOutcome = None
    /\ executed = {}
    /\ entryOutcome = None
    /\ result = None
    /\ printed = {}
    /\ interrupted = "no"
    /\ cacheDir = <<>>
    /\ cacheCall = NoCall
    /\ cacheCalls = 0
    /\ ValidateIdle
    /\ RegistryIdle
    /\ RunAllIdle
    /\ StepsIdle

NextCache ==
    \/ \E c \in CacheModules, b \in Sources : EditModule(c, b)
    \/ \E c \in CacheModules, k \in ComponentKinds, e \in StoreEnvs, p \in BOOLEAN :
          CacheComponent(c, k, e, p)
    \/ \E c \in CacheModules, e \in {"ok", "open_denied"} : GetCachedComponent(c, e)

SpecCache == InitCache /\ [][NextCache]_vars

(***************************************************************************)
(* utils.validate_component_module.  A module is described by what its     *)
(* import does and by the register_parser attribute its source defines.    *)
(***************************************************************************)
MaxParams == 2

\* What importing a module does: it succeeds, or the file is not there, its
\* source does not compile, it imports a module or a name that does not
\* exist, or its top-level code raises.
ModuleLoads ==
    {"ok", "missing_file", "syntax_error", "missing_dependency", "missing_name",
     "type_error", "attribute_error", "key_error"}

\* The register_parser attribute of a module: absent, an object that is not
\* callable, a function of `params' parameters, or a callable that
\* inspect.signature finds no signature for.
RegisterParsers == {"absent", "not_callable", "function", "no_signature"}

ModuleTexts ==
    [ load            : ModuleLoads,
      register_parser : RegisterParsers,
      params          : 0..MaxParams ]

\* importlib.import_module(module_name)
import_module(m) ==
    CASE m.load = "missing_file"       -> Raise("ModuleNotFoundError")
      [] m.load = "syntax_error"       -> Raise("SyntaxError")
      [] m.load = "missing_dependency" -> Raise("ModuleNotFoundError")
      [] m.load = "missing_name"       -> Raise("ImportError")
      [] m.load = "type_error"         -> Raise("TypeError")
      [] m.load = "attribute_error"    -> Raise("AttributeError")
      [] m.load = "key_error"          -> Raise("KeyError")
      [] OTHER                         -> Ret(m)

\* hasattr(module, attr) for attr = 'register_parser'
hasattr(m) == m.register_parser # "absent"

\* callable(getattr(module, 'register_parser'))
callable(m) == m.register_parser \in {"function", "no_signature"}

\* len(inspect.signature(module.register_parser).parameters)
signature(m) ==
    IF m.register_parser = "no_signature" THEN Raise("ValueError")
    ELSE Ret(m.params)

\* The try block of validate_component_module.
ValidateTry(m) ==
    LET imp == import_module(m)
    IN  IF imp.kind = "raise" THEN imp
        ELSE IF ~hasattr(m) THEN Ret(<<FALSE, <<"missing required attributes">> >>)
        ELSE IF ~callable(m) THEN Ret(<<FALSE, <<"register_parser is not callable">> >>)
        ELSE LET sig == signature(m)
             IN  IF sig.kind = "raise" THEN sig
                 ELSE IF sig.value # 1
                 THEN Ret(<<FALSE, <<"must take exactly one argument">> >>)
                 ELSE Ret(<<TRUE, m>>)

\* The except clauses of validate_component_module, in order.
ValidateExcept ==
    << [exc |-> "ImportError",    msg |-> "Error importing module"],
       [exc |-> "AttributeError", msg |-> "Error validating module"],
       [exc |-> "TypeError",      msg |-> "Invalid module signature"],
       [exc |-> "ValueError",     msg |-> "Invalid module signature"] >>

\* traceback.format_exc(): the lines of the traceback of exception e, the
\* header and the exception line (the frames between them are left out).
format_exc(e) == <<"Traceback (most recent call last):", e>>

\* The reason is a text, modelled as the sequence of its lines: an except
\* clause returns f"{msg} {module_name}: {str(e)}\n{error_traceback}".
validate_component_module(m) ==
    LET o == ValidateTry(m)
    IN  IF o.kind = "return" THEN o
        ELSE LET i == FirstMatch(ValidateExcept, o.exc)
             IN  IF i = 0 THEN o
                 ELSE Ret(<<FALSE, <<ValidateExcept[i].msg>> \o format_exc(o.exc)>>)

\* A call of validate_component_module.
Validate ==
    /\ valResult = None
    /\ valResult' = validate_component_module(valModule)
    /\ UNCHANGED <<mainVars, source, cacheVars, valModule, registryVars, runAllVars,
                   stepVars>>

InitValidate ==
    /\ DispatcherIdle
    /\ valModule \in ModuleTexts
    /\ valResult = None
    /\ RegistryIdle
    /\ RunAllIdle
    /\ StepsIdle

NextValidate == Validate

SpecValidate == InitValidate /\ [][NextValidate]_vars

(***************************************************************************)
(* parser.create_parser and the registry it calls.  The registry           *)
(* (components/__init__.py) validates each discovered module with          *)
(* validate_component_module, lets each valid one register its subcommand, *)
(* logs and skips each invalid one, and logs a command name registered     *)
(* twice.  Its use of the cache is left out here: the cache functions are  *)
(* modelled above.                                                         *)
(***************************************************************************)
MaxMods == 3

\* The command names the discovered components register.
RegCommands == {"studio", "all"}

\* The modules the registry discovers: ones that load or fail to load, with
\* a register_parser of one parameter or without one.
RegModules ==
    { m \in ModuleTexts :
        /\ m.load \in {"ok", "missing_dependency", "syntax_error"}
        /\ \/ m.register_parser = "function" /\ m.params = 1
           \/ m.register_parser = "absent" /\ m.params = 0 }

\* discover(): the component modules in order, each with the command name its
\* register_parser adds.
Discoveries ==
    UNION { [1..n -> [module : RegModules, command : RegCommands]] : n \in 0..MaxMods }

\* subparsers.add_parser(name) called by component i: the name map after
\* the call and whether argparse raised.  For a name already taken, Python
\* 3.11 and later raise ArgumentError (conflicting subparser) and leave the
\* map alone; earlier versions replace the entry.
add_parser(surf, name, i, argparse) ==
    IF name \notin DOMAIN surf
    THEN [surface |-> surf @@ (name :> i), raised |-> FALSE]
    ELSE IF argparse = "raise"
    THEN [surface |-> surf, raised |-> TRUE]
    ELSE [surface |-> [surf EXCEPT ![name] = i], raised |-> FALSE]

\* The registry before the first module.
EmptyBuild ==
    [out |-> None, surface |-> <<>>, skipped |-> 0, log |-> {}, warned |-> FALSE]

\* The registry's loop from module i on.
RECURSIVE build_surface(_, _, _, _)
build_surface(mods, i, argparse, acc) ==
    IF i > Len(mods) THEN [acc EXCEPT !.out = Ret(DOMAIN acc.surface # {})]
    ELSE LET v == validate_component_module(mods[i].module)
         IN  IF v.kind = "raise" THEN [acc EXCEPT !.out = v]
             ELSE IF v.value[1] = FALSE
             THEN build_surface(mods, i + 1, argparse,
                      [acc EXCEPT !.skipped = @ + 1,
                                  !.log = @ \cup {[id |-> i, msg |-> "invalid"]}])
             ELSE LET a == add_parser(acc.surface, mods[i].command, i, argparse)
                  IN  build_surface(mods, i + 1, argparse,
                          [acc EXCEPT !.surface = a.surface,
                                      !.log = IF a.raised
                                              THEN @ \cup {[id |-> i, msg |-> "duplicate"]}
                                              ELSE @])

\* create_parser(): the parser is returned, after a warning when the
\* registry reports that nothing was registered.
CreateParser ==
    /\ regBuilt = None
    /\ LET r == build_surface(regMods, 1, regArgparse, EmptyBuild)
       IN  regBuilt' = IF r.out.kind = "raise" THEN r
                       ELSE [r EXCEPT !.out = Ret("parser"),
                                      !.warned = (r.out.value = FALSE)]
    /\ UNCHANGED <<mainVars, source, cacheVars, validateVars, regMods, regArgparse,
                   runAllVars, stepVars>>

InitRegistry ==
    /\ DispatcherIdle
    /\ ValidateIdle
    /\ regMods \in Discoveries
    /\ regArgparse \in {"raise", "overwrite"}
    /\ regBuilt = None
    /\ RunAllIdle
    /\ StepsIdle

NextRegistry == CreateParser

SpecRegistry == InitRegistry /\ [][NextRegistry]_vars

(***************************************************************************)
(* components/run_all.run_all: the loop over the selected components and   *)
(* the summary.                                                            *)
(***************************************************************************)
MaxRun == 3

\* The component modules that can be loaded beside run_all: four of the
\* repository and Docker_ps, a module whose name spells docker with a
\* capital letter.
RunModules == {"agent_eval", "dalle", "docker_studio", "studio", "Docker_ps"}

\* The names in the components package: the loaded modules, run_all among
\* them, the two functions of the package and a special attribute.
PackageNames(loaded) ==
    loaded \cup {"run_all", "load_all_components", "register_all_parsers", "__name__"}

\* The packages run_all can find: up to MaxRun modules beside itself.
Packages ==
    { PackageNames(S) : S \in { T \in SUBSET RunModules : Cardinality(T) <= MaxRun } }

\* A name as tokens, so that startswith and the test for 'docker' are
\* computed.
NameTokens(n) == CASE n = "__name__"      -> <<"__", "name", "__">>
                   [] n = "docker_studio" -> <<"docker", "_", "studio">>
                   [] n = "Docker_ps"     -> <<"Docker", "_", "ps">>
                   [] OTHER               -> <<n>>

\* str.lower() of a token.
lower(t) == IF t = "Docker" THEN "docker" ELSE t

\* All names in the order of sorted(): capitals, then the underscore, then
\* small letters.
SortedNames ==
    << "Docker_ps", "ROOT_DIR", "__name__", "agent_eval", "agent_evaluation",
       "argparse", "autogen_studio_build", "dalle", "dalle_image_generation",
       "debug_args", "docker_ps", "docker_studio", "load_all_components", "os",
       "register_all_parsers", "register_parser", "run_all", "run_command",
       "studio", "time" >>

\* dir(obj): the names of obj, sorted.
dir(names) == SelectSeq(SortedNames, LAMBDA n : n \in names)

\* The function a module defines under @debug_args and binds as func in its
\* register_parser.
EntryName(module_name) ==
    CASE module_name = "agent_eval"    -> "agent_evaluation"
      [] module_name = "dalle"         -> "dalle_image_generation"
      [] module_name = "docker_studio" -> "docker_studio"
      [] module_name = "studio"        -> "autogen_studio_build"
      [] module_name = "Docker_ps"     -> "docker_ps"
      [] module_name = "run_all"       -> "run_all"

\* The names a component module defines or imports at its top level.
ModuleAttrs(module_name) ==
    {"__name__", "os", "argparse", "debug_args", "register_parser",
     EntryName(module_name)}
    \cup (IF module_name = "run_all" THEN {"time"} ELSE {"run_command"})
    \cup (IF module_name \in {"docker_studio", "studio"} THEN {"ROOT_DIR"} ELSE {})

\* The members of the package that are component modules.
IsModule(n) == n \in RunModules \cup {"run_all"}

\* hasattr(module, 'register_parser') for a member of the package.
HasRegisterParser(n) == IsModule(n) /\ "register_parser" \in ModuleAttrs(n)

\* callable(attr) for an attribute of a component module: the functions.
CallableAttr(attr_name) ==
    attr_name \notin {"__name__", "os", "argparse", "time", "ROOT_DIR"}

\* The callables of a module the inner loop can stop at, in dir() order.
Candidates(module_name) ==
    SelectSeq(dir(ModuleAttrs(module_name)),
              LAMBDA a : CallableAttr(a) /\ a # "register_parser")

\* The loop over dir(components): an entry (module_name, attr_name) for each
\* member that is not skipped, has register_parser and has a callable.
Collected(package) ==
    LET kept == SelectSeq(dir(package),
                    LAMBDA n : /\ ~startswith(NameTokens(n), <<"__">>)
                               /\ n # "register_all_parsers"
                               /\ HasRegisterParser(n)
                               /\ Candidates(n) # <<>>)
    IN  [ i \in 1..Len(kept) |->
            [module_name |-> kept[i], attr_name |-> Candidates(kept[i])[1]] ]

\* component_list = [c for c in component_list if c[1] != 'run_all']
FilterSelf(component_list) ==
    SelectSeq(component_list, LAMBDA c : c.attr_name # "run_all")

\* 'docker' in c[0].lower()
IsDocker(c) ==
    \E i \in DOMAIN NameTokens(c.module_name) :
        lower(NameTokens(c.module_name)[i]) = "docker"

\* A test for 'docker' that does not lower the name first.
FilterDockerCaseSensitive(component_list, include_docker) ==
    IF ~include_docker
    THEN SelectSeq(component_list,
             LAMBDA c : \A i \in DOMAIN NameTokens(c.module_name) :
                            NameTokens(c.module_name)[i] # "docker")
    ELSE component_list

\* if not args.include_docker: drop the entries with docker in their name
FilterDocker(component_list, include_docker) ==
    IF ~include_docker
    THEN SelectSeq(component_list, LAMBDA c : ~IsDocker(c))
    ELSE component_list

\* What a component function does when called: it returns an exit code or
\* raises.
RunOutcomes ==
    { Ret(0), Ret(1), Raise("ValueError"), Raise("KeyError"),
      Raise("FileNotFoundError"), Raise("OSError"), Raise("KeyboardInterrupt") }

\* The except clauses of the loop body, in order.
RunAllExcept ==
    << [exc |-> "ImportError"], [exc |-> "AttributeError"], [exc |-> "ValueError"],
       [exc |-> "TypeError"], [exc |-> "KeyError"], [exc |-> "FileNotFoundError"],
       [exc |-> "PermissionError"] >>

\* A loop that goes on after a failed component whatever the option says.
AfterFailureGoesOn(continue_on_error) == "loop"

\* if not args.continue_on_error: break
AfterFailure(continue_on_error) ==
    IF ~continue_on_error THEN "break" ELSE "loop"

\* The start of run_all: the components are collected from the package and
\* the two filters are applied.
Collect ==
    /\ raPc = "collect"
    /\ raComponents' = FilterDocker(FilterSelf(Collected(raPackage)),
                                    raArgs.include_docker)
    /\ raPc' = "loop"
    /\ UNCHANGED <<mainVars, source, cacheVars, validateVars, registryVars, stepVars,
                   raArgs, raPackage, raIndex, raResults, raCalls, raOut>>

\* One iteration of the loop for an entry whose callable is debug_args:
\* debug_args(args) returns its inner wrapper function without calling
\* anything, and a function is not equal to 0.
RunDebugArgs ==
    /\ raPc = "loop"
    /\ raIndex < Len(raComponents)
    /\ LET name == raComponents[raIndex + 1]
       IN  /\ name.attr_name = "debug_args"
           /\ raIndex' = raIndex + 1
           /\ raCalls' = Append(raCalls, name)
           /\ raResults' = Append(raResults,
                  [component |-> name, success |-> FALSE, exit_code |-> "wrapper"])
           /\ raPc' = AfterFailure(raArgs.continue_on_error)
    /\ UNCHANGED <<mainVars, source, cacheVars, validateVars, registryVars, stepVars,
                   raArgs, raPackage, raComponents, raOut>>

\* One iteration of the loop for an entry whose callable is the module's
\* entry function: func(args) is called with outcome o.
RunComponent(o) ==
    /\ raPc = "loop"
    /\ raIndex < Len(raComponents)
    /\ LET name == raComponents[raIndex + 1]
       IN  /\ name.attr_name = EntryName(name.module_name)
           /\ raIndex' = raIndex + 1
           /\ raCalls' = Append(raCalls, name)
           /\ IF o.kind = "return"
              THEN LET success == (o.value = 0)
                   IN  /\ raResults' = Append(raResults,
                              [component |-> name, success |-> success,
                               exit_code |-> o.value])
                       /\ raPc' = IF ~success
                                  THEN AfterFailure(raArgs.continue_on_error)
                                  ELSE "loop"
                       /\ raOut' = raOut
              ELSE IF FirstMatch(RunAllExcept, o.exc) # 0
              THEN /\ raResults' = Append(raResults,
                          [component |-> name, success |-> FALSE, error |-> o.exc])
                   /\ raPc' = AfterFailure(raArgs.continue_on_error)
                   /\ raOut' = raOut
              ELSE /\ raResults' = raResults
                   /\ raPc' = "done"
                   /\ raOut' = o
    /\ UNCHANGED <<mainVars, source, cacheVars, validateVars, registryVars, stepVars,
                   raArgs, raPackage, raComponents>>

\* sum(1 for r in results if r.get('success', False))
successful(results) ==
    Cardinality({ i \in DOMAIN results : results[i].success })

\* After the loop: the summary and the return value.
Summary ==
    /\ \/ raPc = "break"
       \/ raPc = "loop" /\ raIndex = Len(raComponents)
    /\ raPc' = "done"
    /\ raOut' = IF successful(raResults) = Len(raResults) THEN Ret(0) ELSE Ret(1)
    /\ UNCHANGED <<mainVars, source, cacheVars, validateVars, registryVars, stepVars,
                   raArgs, raPackage, raComponents, raIndex, raResults, raCalls>>

InitRunAll ==
    /\ DispatcherIdle
    /\ ValidateIdle
    /\ RegistryIdle
    /\ raArgs \in [include_docker : BOOLEAN, continue_on_error : BOOLEAN]
    /\ raPackage \in Packages
    /\ raComponents = <<>>
    /\ raIndex = 0
    /\ raPc = "collect"
    /\ raResults = <<>>
    /\ raCalls = <<>>
    /\ raOut = None
    /\ StepsIdle

NextRunAll ==
    \/ Collect
    \/ RunDebugArgs
    \/ \E o \in RunOutcomes : RunComponent(o)
    \/ Summary

SpecRunAll == InitRunAll /\ [][NextRunAll]_vars

(***************************************************************************)
(* The entry functions that run several external commands: studio,         *)
(* docker-studio and dotnet-group.  Each step is one run_command call,     *)
(* which blocks until the command has exited.                              *)
(***************************************************************************)
StepComponents == {"studio", "docker-studio", "dotnet-group"}

\* The steps of each entry function in the order of its code.  docker-studio
\* creates its volume directories between its two commands.
Steps(component) ==
    CASE component = "studio" ->
            << [kind |-> "command", name |-> "pip install"],
               [kind |-> "command", name |-> "npm install"],
               [kind |-> "command", name |-> "npm run build"],
               [kind |-> "command", name |-> "python -m autogenstudio"] >>
      [] component = "docker-studio" ->
            << [kind |-> "command", name |-> "docker build"],
               [kind |-> "makedirs", name |-> "os.makedirs"],
               [kind |-> "command", name |-> "docker run"] >>
      [] component = "dotnet-group" ->
            << [kind |-> "command", name |-> "dotnet build"],
               [kind |-> "command", name |-> "AutoGen.GroupChat.Sample"] >>

\* The commands whose command line carries args.port.
UsesPort(name) == name \in {"python -m autogenstudio", "docker run"}

\* The command line of a step, as far as the model looks at it.
CommandLine(step, a) ==
    [name |-> step.name, port |-> IF UsesPort(step.name) THEN <<a.port>> ELSE <<>>]

\* run_command: subprocess.call returns the exit code of the command, or
\* raises when the command cannot be started.
CommandOutcomes ==
    { Ret(code) : code \in ReturnCodes }
    \cup { Raise("FileNotFoundError"), Raise("PermissionError") }

\* os.makedirs(..., exist_ok=True): nothing is returned, or it raises.
MakedirsOutcomes == { Ret(0), Raise("PermissionError") }

\* A preparatory step that never counts as failed.
StepFailedNever(code) == FALSE

\* if run_command(...) != 0
StepFailed(code) == code # 0

\* One step of the entry function: a run_command call with outcome o, or
\* the os.makedirs calls.
RunStep(o) ==
    /\ stComponent \in StepComponents
    /\ stOut = None
    /\ stIndex < Len(Steps(stComponent))
    /\ LET step  == Steps(stComponent)[stIndex + 1]
           final == (stIndex + 1 = Len(Steps(stComponent)))
       IN  /\ stIndex' = stIndex + 1
           /\ IF step.kind = "makedirs"
              THEN /\ o \in MakedirsOutcomes
                   /\ stStarted' = stStarted
                   /\ stCodes' = stCodes
                   /\ stOut' = IF o.kind = "raise" THEN o ELSE None
              ELSE /\ o \in CommandOutcomes
                   /\ stStarted' = Append(stStarted, CommandLine(step, stArgs))
                   /\ IF o.kind = "raise"
                      THEN /\ stCodes' = stCodes
                           /\ stOut' = o
                      ELSE /\ stCodes' = Append(stCodes, o.value)
                           /\ stOut' = IF final THEN Ret(o.value)
                                       ELSE IF StepFailed(o.value) THEN Ret(1)
                                       ELSE None
    /\ UNCHANGED <<mainVars, source, cacheVars, validateVars, registryVars, runAllVars,
                   stComponent, stArgs>>

InitSteps ==
    /\ DispatcherIdle
    /\ ValidateIdle
    /\ RegistryIdle
    /\ RunAllIdle
    /\ stComponent \in StepComponents
    /\ stArgs \in [port : {DefaultPort} \cup GivenPorts]
    /\ stIndex = 0
    /\ stStarted = <<>>
    /\ stCodes = <<>>
    /\ stOut = None

NextSteps == \E o \in CommandOutcomes \cup MakedirsOutcomes : RunStep(o)

SpecSteps == InitSteps /\ [][NextSteps]_vars

(***************************************************************************)
(* Properties of the dispatcher.                                           *)
(***************************************************************************)
Done == pc = "done"

\* The reload call failed with an error (not an interrupt).
ReloadFailed ==
    /\ reloadOutcome.kind = "raise"
    /\ IsSubclass(reloadOutcome.exc, "Exception")

\* C1: the reload is best-effort: when the reload of the selected
\* component's module fails, main still calls the entry function and returns
\* its result.
C1_ReloadBestEffort ==
    (Done /\ ReloadFailed) =>
        /\ executed # {}
        /\ entryOutcome.kind = "return"  => result = entryOutcome

\* C2: whenever an entry function of a menu.components module was called,
\* main reloaded that module before.
C2_ReloadBeforeEntry ==
    \A e \in executed : ModuleName(e.comp) \in reloaded

\* C3: the code main runs for the selected command is the content the
\* component's file has at dispatch, edits made since the surface was built
\* included.
C3_EditedCodeRuns ==
    \A e \in executed : e.code = source[e.comp]

\* C4: when the entry function returns r, main returns r, and the entry
\* function was called for the command of the command line with the port given.
C4_ReturnUnchanged ==
    (Done /\ entryOutcome.kind = "return") =>
        /\ result = Ret(entryOutcome.value)
        /\ \A e \in executed :
              /\ CommandOf(e.comp) = argv.command
              /\ e.port = IF argv.flag = "port" THEN argv.port ELSE DefaultPort

C4_Witness ==
    /\ Done
    /\ argv = [command |-> "studio", flag |-> "port", port |-> 9999]
    /\ entryOutcome = Ret(3)
    /\ result = Ret(3)
    /\ \E e \in executed : e.comp = "studio" /\ e.port = 9999

\* C5: every error an entry function raises is caught by main, which
\* returns 1.
C5_ErrorsReturnOne ==
    (Done /\ entryOutcome.kind = "raise" /\ IsSubclass(entryOutcome.exc, "Exception")) =>
        result = Ret(1)

C5_Witness ==
    /\ Done
    /\ entryOutcome = Raise("KeyError")
    /\ result = Ret(1)
    /\ "Unexpected error" \in printed

\* C6: a KeyboardInterrupt arriving while the selected command is dispatched
\* or runs makes main return 130.
C6_InterruptReturns130 ==
    interrupted \in {"dispatch", "entry"} => result = Ret(130)

C6_Witness ==
    /\ interrupted = "entry"
    /\ executed # {}
    /\ result = Ret(130)

\* The command line names no command and no flag.
BareInvocation == argv.command = "" /\ argv.flag = "none"

\* C7: with no command selected main prints the usage, calls no entry
\* function, reloads nothing and returns 1.
C7_NoCommand ==
    (Done /\ BareInvocation /\ interrupted = "no") =>
        /\ "usage" \in printed
        /\ executed = {}
        /\ reloaded = {}
        /\ result = Ret(1)

C7_Witness ==
    /\ Done
    /\ BareInvocation
    /\ ~HasFunc(args)
    /\ result = Ret(1)
    /\ "usage" \in printed

\* The command line has a flag no parser knows or a command no component
\* registered.
Unrecognized ==
    \/ argv.flag = "unknown"
    \/ argv.command # "" /\ argv.command \notin SurfaceCommands(surface)

\* C8: a command line with an unrecognized flag or an unregistered command
\* prints the usage and ends with exit code 1.
C8_UnrecognizedExitsOne ==
    (Done /\ interrupted = "no" /\ argv.flag # "help" /\ Unrecognized) =>
        /\ "usage" \in printed
        /\ ExitStatus(result) = 1

(***************************************************************************)
(* Properties of the cache.                                                *)
(***************************************************************************)
\* The last call was cache_component and pickle.dump could not serialize the
\* component.
SerializationFailed ==
    /\ cacheCall.fn = "cache_component"
    /\ cacheCall.tried.kind = "raise"
    /\ cacheCall.kind # "data"

\* C9: when the component cannot be serialized, cache_component prints a
\* warning and returns False; it does not raise.
C9_StoreToleratesFailure ==
    SerializationFailed =>
        /\ cacheCall.out = Ret(FALSE)
        /\ cacheCall.msg = "[WARNING] Failed to cache component"

\* The last call was get_cached_component, the cache file of the current
\* key existed and pickle.load could not deserialize it.
DeserializationFailed ==
    /\ cacheCall.fn = "get_cached_component"
    /\ cacheCall.tried.kind = "raise"

\* C10: when the cache file exists and cannot be deserialized,
\* get_cached_component returns not found; it does not raise.
C10_LookupToleratesFailure ==
    DeserializationFailed =>
        /\ cacheCall.out.kind = "return"
        /\ cacheCall.out.value[1] = FALSE

\* C11: a store is atomic: whatever happens to a cache_component call, the
\* file of its key afterwards holds the complete entry or does not exist, so
\* no lookup finds an empty or partly written file.
C11_StoreAtomic ==
    \A f \in DOMAIN cacheDir : cacheDir[f].state = "complete"

\* The last call was get_cached_component and it returned a component.
LookupHit ==
    /\ cacheCall.fn = "get_cached_component"
    /\ cacheCall.out.kind = "return"
    /\ cacheCall.out.value[1] = TRUE

\* C12: the component a lookup returns was stored for the bytes the
\* module's file holds at the lookup; one stored for other bytes is never
\* returned.
C12_NoStaleDescriptor ==
    LookupHit => cacheCall.out.value[2].code = cacheCall.bytes

\* A lookup misses while the directory holds a complete entry stored for
\* other bytes of a module of the same file name.
C12_Witness ==
    /\ cacheCall.fn = "get_cached_component"
    /\ cacheCall.out = Ret(<<FALSE, NotFound>>)
    /\ \E b \in Sources \ {cacheCall.bytes} :
          LET f == cache_file(ModuleName(cacheCall.comp), get_module_hash(b))
          IN  exists(cacheDir, f) /\ cacheDir[f].state = "complete"

\* What a successful validation hands to the cache: the imported module.
ValidatedKind == "module"

\* C13: a component that validated and was handed to cache_component is
\* returned by the next get_cached_component as long as the bytes of its
\* file are unchanged.
C13_ValidatedThenHit ==
    ( /\ cacheCall.fn = "cache_component"
      /\ cacheCall.kind = ValidatedKind
      /\ cacheCall.env = "ok"
      /\ cacheCall.bytes = source[cacheCall.comp] )
    => LET c == cacheCall.comp
           r == get_cached_component(cacheDir, ModuleName(c), source[c], "ok")
       IN  /\ r.out.kind = "return"
           /\ r.out.value[1] = TRUE

\* C14: different module names never share a cache file: the component a
\* lookup returns is one stored under the name the lookup asked for.
C14_NoCrossModuleEntry ==
    LookupHit => cacheCall.out.value[2].name = ModuleName(cacheCall.comp)

\* C22: a cache entry is never changed in place: a file that exists keeps
\* its content through every later call; files are only ever created.
C22_EntriesOnlyCreated ==
    [][\A f \in DOMAIN cacheDir :
           f \in DOMAIN cacheDir' /\ cacheDir'[f] = cacheDir[f]]_vars

(***************************************************************************)
(* Properties of the validator.                                            *)
(***************************************************************************)
\* The module cannot be loaded.
LoadFails(m) == import_module(m).kind = "raise"

\* The loaded module has a callable register_parser of exactly one parameter.
WellShaped(m) ==
    /\ m.register_parser = "function"
    /\ m.params = 1

\* What a reason tells its reader: that the module could not be loaded, or
\* that it does not have the required shape.
ReasonKind(msg) == IF msg[1] = "Error importing module" THEN "load" ELSE "shape"

\* C15: validate_component_module returns (True, module) only for a module
\* that loaded and has a callable register_parser of exactly one parameter;
\* in every other case it returns (False, reason), and the reason tells a
\* load failure from a shape failure.
C15_ValidOnlyWellShaped ==
    valResult # None =>
        IF ~LoadFails(valModule) /\ WellShaped(valModule)
        THEN valResult = Ret(<<TRUE, valModule>>)
        ELSE /\ valResult.kind = "return"
             /\ valResult.value[1] = FALSE
             /\ ReasonKind(valResult.value[2]) =
                    (IF LoadFails(valModule) THEN "load" ELSE "shape")

\* The module fails to load in one of the three ways: its file is missing,
\* its source has a syntax error, it imports a module that is not installed.
NamedLoadFailure(m) ==
    m.load \in {"missing_file", "syntax_error", "missing_dependency"}

\* C16: a module that fails to load (missing file, syntax error, unresolved
\* dependency) is reported as (False, load-error reason); nothing is raised
\* to the caller.
C16_LoadFailureReported ==
    (valResult # None /\ NamedLoadFailure(valModule)) =>
        /\ valResult.kind = "return"
        /\ valResult.value[1] = FALSE
        /\ ReasonKind(valResult.value[2]) = "load"

\* C21: a failure is reported as one line with its category and without a
\* stack trace: the reason validate_component_module returns for an invalid
\* module holds no traceback text.
C21_ReasonWithoutTraceback ==
    (valResult # None /\ valResult.kind = "return" /\ valResult.value[1] = FALSE)
    => /\ Len(valResult.value[2]) = 1
       /\ \A i \in DOMAIN valResult.value[2] :
             valResult.value[2][i] # "Traceback (most recent call last):"

(***************************************************************************)
(* Properties of the registry.                                             *)
(***************************************************************************)
\* Discovered module i loads and has the required shape.
RegValid(i) ==
    /\ ~LoadFails(regMods[i].module)
    /\ WellShaped(regMods[i].module)

Duplicate(j) ==
    /\ RegValid(j)
    /\ \E i \in 1..(j - 1) : RegValid(i) /\ regMods[i].command = regMods[j].command

\* C18: when two components register the same command name the first one
\* keeps it: the surface binds the name to the first component, the conflict
\* is logged, and the components after it are still registered.
C18_FirstRegistrationWins ==
    (regBuilt # None /\ regBuilt.out.kind = "return") =>
        \A j \in DOMAIN regMods :
            Duplicate(j) =>
                /\ regBuilt.surface[regMods[j].command] < j
                /\ \A i \in 1..(j - 1) :
                      (RegValid(i) /\ regMods[i].command = regMods[j].command
                         /\ ~Duplicate(i))
                      => regBuilt.surface[regMods[j].command] = i
                /\ [id |-> j, msg |-> "duplicate"] \in regBuilt.log
                /\ \A k \in DOMAIN regMods :
                      (k > j /\ RegValid(k)) =>
                          regMods[k].command \in DOMAIN regBuilt.surface

(***************************************************************************)
(* Properties of run_all.                                                  *)
(***************************************************************************)
\* run_all has returned.
RunAllReturned == raPc = "done" /\ raOut # None /\ raOut.kind = "return"

\* C19: run_all returns 0 if every executed component was successful or if
\* continue_on_error is set, and 1 only when a component failed and
\* continue_on_error is not set.
C19_ZeroWhenContinuing ==
    RunAllReturned =>
        raOut.value = (IF \/ successful(raResults) = Len(raResults)
                          \/ raArgs.continue_on_error
                       THEN 0 ELSE 1)

\* run_all is over and no interrupt from the keyboard ended it.
RunAllOver ==
    /\ raPc = "done"
    /\ raOut # None
    /\ ~(raOut.kind = "raise" /\ raOut.exc = "KeyboardInterrupt")

\* C20: with continue_on_error set, when run_all is over every selected
\* component has been executed exactly once, in list order, whatever exit
\* code or error the components before it produced.
C20_ContinuesThroughList ==
    (RunAllOver /\ raArgs.continue_on_error) => raCalls = raComponents

\* C23: without continue_on_error run_all stops at the first component
\* that fails, by exit code or by a caught error: the failed component is the
\* last entry of the results, no component after it is called, and run_all
\* returns 1.
C23_StopsAtFirstFailure ==
    (raArgs # None /\ ~raArgs.continue_on_error) =>
        \A k \in DOMAIN raResults :
            ~raResults[k].success =>
                /\ k = Len(raResults)
                /\ Len(raCalls) = k
                /\ raCalls[k] = raResults[k].component
                /\ raPc \in {"break", "done"}
                /\ raPc = "done" => raOut = Ret(1)

\* run_all has returned 1 after a component failed with a caught error,
\* components after it were left in the list and none of them was called.
C23_Witness ==
    /\ ~raArgs.continue_on_error
    /\ RunAllReturned
    /\ raOut.value = 1
    /\ Len(raResults) = 2
    /\ Len(raComponents) > 2
    /\ raResults[1].success
    /\ "error" \in DOMAIN raResults[2]
    /\ raCalls = SubSeq(raComponents, 1, 2)

\* run_all has collected and filtered its list of components.
Selected == raArgs # None /\ raPc # "collect"

\* C24: after the filter the list of components holds no entry taken from
\* the run_all module, and run_all calls nothing of its own module.
C24_NoSelfEntry ==
    Selected =>
        /\ \A i \in DOMAIN raComponents : raComponents[i].module_name # "run_all"
        /\ \A i \in DOMAIN raCalls : raCalls[i].module_name # "run_all"

\* C25: for every component module in the list, the callable picked is the
\* module's entry function, the one its register_parser binds as func.
C25_PicksEntryFunction ==
    Selected =>
        \A i \in DOMAIN raComponents :
            raComponents[i].module_name # "run_all" =>
                raComponents[i].attr_name = EntryName(raComponents[i].module_name)

\* C26: without include_docker no entry with docker in its module name,
\* in capitals or not, is in the list or is called; with include_docker the
\* docker filter removes nothing.
C26_DockerFilter ==
    Selected =>
        IF raArgs.include_docker
        THEN raComponents = FilterSelf(Collected(raPackage))
        ELSE /\ \A i \in DOMAIN raComponents : ~IsDocker(raComponents[i])
             /\ \A i \in DOMAIN raCalls : ~IsDocker(raCalls[i])

\* run_all is over, without include_docker, in a package that holds the two
\* docker modules, and it has called a component.
C26_Witness ==
    /\ raArgs # None
    /\ ~raArgs.include_docker
    /\ {"docker_studio", "Docker_ps"} \subseteq raPackage
    /\ raPc = "done"
    /\ Len(raCalls) > 0

(***************************************************************************)
(* Properties of the multi-step entry functions.                           *)
(***************************************************************************)
\* The names of the external commands of a component, in order.
Commands(component) ==
    LET cmds == SelectSeq(Steps(component), LAMBDA st : st.kind = "command")
    IN  [ i \in 1..Len(cmds) |-> cmds[i].name ]

\* C27: the external commands of studio, docker-studio and dotnet-group are
\* started in order, a command is started only if every command before it
\* exited 0, a failing preparatory command makes the entry function return 1,
\* and the exit code of the final command is returned unchanged.
C27_StepsInOrder ==
    stComponent \in StepComponents =>
        /\ Len(stStarted) <= Len(Commands(stComponent))
        /\ \A k \in DOMAIN stStarted :
              /\ stStarted[k].name = Commands(stComponent)[k]
              /\ \A j \in 1..(k - 1) : j \in DOMAIN stCodes /\ stCodes[j] = 0
        /\ (stOut # None /\ stOut.kind = "return") =>
              /\ Len(stCodes) = Len(stStarted)
              /\ IF Len(stStarted) = Len(Commands(stComponent))
                 THEN stOut.value = stCodes[Len(stCodes)]
                 ELSE stOut.value = 1 /\ stCodes[Len(stCodes)] # 0
        /\ (stOut = None /\ stCodes # <<>>) => stCodes[Len(stCodes)] = 0

\* studio's third command, npm run build, has failed after two commands that
\* exited 0, and the entry function has returned 1 without the launch.
C27_Witness ==
    /\ stComponent = "studio"
    /\ Len(stStarted) = 3
    /\ stCodes = <<0, 0, 2>>
    /\ stOut = Ret(1)

=============================================================================
